---- MODULE Spec2Model ----
(***************************************************************************)
(* heimdall-rs: the selector resolver and signature score of               *)
(* common/src/ether/signatures.rs and the command dispatch of              *)
(* cli/src/main.rs.                                                        *)
(*                                                                         *)
(* Three specifications share the module:                                  *)
(*   ScoreSpec   - score_signature applied to two bounded inputs           *)
(*   ResolveSpec - concurrent resolve() calls over the selector cache      *)
(*   CliSpec     - one run of main() from argument parsing to exit         *)
(* A text is a tuple of characters; a character is a one-character string  *)
(* or the name of a code point ("U+00E9").                                 *)
(***************************************************************************)
EXTENDS Integers, Sequences, FiniteSets, TLC

VARIABLES
    sigs,            \* ScoreSpec: the two signatures handed to score_signature
    scores,          \* ScoreSpec: what each call produced
    overflowChecks,  \* the build: TRUE = overflow-checks on (debug), FALSE = off (release)
    cache,           \* ResolveSpec: the on-disk cache, key -> entry
    calls,           \* ResolveSpec: the resolve() futures suspended at the GET request
    last,            \* ResolveSpec: the resolve() call that finished last
    pc,              \* CliSpec: where main() stands
    args,            \* CliSpec: the command line (after Arguments::parse, the subcommand)
    output_path,     \* CliSpec: main's local output_path
    result,          \* CliSpec: what the subcommand returned
    dirs,            \* CliSpec: directories created by this run
    files,           \* CliSpec: files written by this run, path -> content
    stdout,          \* CliSpec: the characters written to standard output
    fault,           \* CliSpec: the failure this run met, if any
    exit_code        \* CliSpec: the exit status of the process

scoreVars == <<sigs, scores, overflowChecks>>
resolveVars == <<cache, calls, last>>
cliVars == <<pc, args, output_path, result, dirs, files, stdout, fault, exit_code>>

vars == <<scoreVars, resolveVars, cliVars>>

----------------------------------------------------------------------------
(* Characters and texts *)

AsciiDigits == {"0", "1", "2", "3", "4", "5", "6", "7", "8", "9"}

\* Non-ASCII characters of the model: U+00E9 (e acute, a letter) and
\* U+0663 (ARABIC-INDIC DIGIT THREE, general category Nd).
TwoByteChars == {"U+00E9", "U+0663"}

\* char::is_numeric: the Unicode categories Nd, Nl, No.
is_numeric(c) == c \in AsciiDigits \cup {"U+0663"}

\* str::len counts UTF-8 bytes, not characters.
str_len(s) == Len(s) + Cardinality({i \in 1..Len(s) : s[i] \in TwoByteChars})

\* signature.matches(|c| c.is_numeric()).count()
count_numeric(s) == Cardinality({i \in 1..Len(s) : is_numeric(s[i])})

----------------------------------------------------------------------------
(* u32 arithmetic.  A u32 is kept as two 16-bit limbs, so that a wrapped   *)
(* value such as 2^32 - 1 stays representable.                             *)

Limb == 65536

U32Of(n) == [hi |-> (n \div Limb) % Limb, lo |-> n % Limb]

U32Less(a, b) == a.hi < b.hi \/ (a.hi = b.hi /\ a.lo < b.lo)

\* a - b modulo 2^32
U32WrappingSub(a, b) ==
    LET lo     == a.lo - b.lo
        borrow == IF lo < 0 THEN 1 ELSE 0
        hi     == a.hi - b.hi - borrow
    IN  [hi |-> hi % Limb, lo |-> lo % Limb]

\* An arithmetic result: a value, or the panic of an overflow check.
Panicked == [panic |-> TRUE, val |-> U32Of(0)]
Value(v) == [panic |-> FALSE, val |-> v]

\* `a -= b` on u32: with overflow checks an underflow panics ("attempt to
\* subtract with overflow"); without them it wraps.
U32SubAssign(a, b, checks) ==
    IF U32Less(a, b) /\ checks THEN Panicked ELSE Value(U32WrappingSub(a, b))

\* `n * 3` on u32, same rule.
U32Mul3(a, checks) ==
    LET lo == a.lo * 3
        hi == a.hi * 3 + (lo \div Limb)
    IN  IF hi >= Limb /\ checks THEN Panicked
        ELSE Value([hi |-> hi % Limb, lo |-> lo % Limb])

----------------------------------------------------------------------------
(* score_signature *)

StartScore == 1000

score_signature(signature, checks) ==
    LET score0  == U32Of(StartScore)
        score1  == U32SubAssign(score0, U32Of(str_len(signature)), checks)
        penalty == U32Mul3(U32Of(count_numeric(signature)), checks)
    IN  IF score1.panic \/ penalty.panic THEN Panicked
        ELSE U32SubAssign(score1.val, penalty.val, checks)

----------------------------------------------------------------------------
(* Signatures used as inputs *)

Sig_a_uint256         == <<"a", "(", "u", "i", "n", "t", "2", "5", "6", ")">>
Sig_a1_uint256        == <<"a", "1", "(", "u", "i", "n", "t", "2", "5", "6", ")">>
Sig_a_uint256_uint256 == <<"a", "(", "u", "i", "n", "t", "2", "5", "6", ",",
                           "u", "i", "n", "t", "2", "5", "6", ")">>
\* Short texts for the backend answers: "a(b)" and "a(b,c)".
Sig_a_b               == <<"a", "(", "b", ")">>
Sig_a_b_c             == <<"a", "(", "b", ",", "c", ")">>
Sig_test_signature    == <<"t", "e", "s", "t", "_", "s", "i", "g", "n", "a",
                           "t", "u", "r", "e">>

----------------------------------------------------------------------------
(* Text helpers used by resolve() *)

RECURSIVE ReplaceChar(_, _, _)
\* str::replace(from, to) for a one-character pattern; `to` is a text.
ReplaceChar(s, from, to) ==
    IF s = <<>> THEN <<>>
    ELSE (IF Head(s) = from THEN to ELSE <<Head(s)>>) \o ReplaceChar(Tail(s), from, to)

\* Index of the first / last occurrence of c in s, 0 when there is none.
FirstIndex(s, c) ==
    IF \E i \in 1..Len(s) : s[i] = c
    THEN CHOOSE i \in 1..Len(s) : s[i] = c /\ \A j \in 1..(i - 1) : s[j] # c
    ELSE 0
LastIndex(s, c) ==
    IF \E i \in 1..Len(s) : s[i] = c
    THEN CHOOSE i \in 1..Len(s) : s[i] = c /\ \A j \in (i + 1)..Len(s) : s[j] # c
    ELSE 0

\* utils::strings::replace_last(s, ")", ""): drops the last occurrence.
replace_last(s, c) ==
    LET i == LastIndex(s, c)
    IN  IF i = 0 THEN s ELSE SubSeq(s, 1, i - 1) \o SubSeq(s, i + 1, Len(s))

RECURSIVE split(_, _)
\* str::split(sep).collect(): always at least one piece.
split(s, sep) ==
    LET i == FirstIndex(s, sep)
    IN  IF i = 0 THEN <<s>>
        ELSE <<SubSeq(s, 1, i - 1)>> \o split(SubSeq(s, i + 1, Len(s)), sep)

\* serde_json::Value::to_string: a JSON string is written between quotes
\* with '"' and '\' escaped; null is written as the word null.
JsonString(s) == [type |-> "string", s |-> s]
JsonNull == [type |-> "null", s |-> <<>>]
Quote == "\""
Backslash == "\\"
json_to_string(v) ==
    IF v.type = "string"
    THEN <<Quote>>
         \o ReplaceChar(ReplaceChar(v.s, Backslash, <<Backslash, Backslash>>),
                        Quote, <<Backslash, Quote>>)
         \o <<Quote>>
    ELSE <<"n", "u", "l", "l">>

----------------------------------------------------------------------------
(* resolve(): ResolvedFunction, ResolvedError and ResolvedLog *)

Kinds == {"function", "error", "event"}

Selectors == {"test_signature"}

\* format!("selector.{selector}"): the key does not name the kind.
cache_key(selector) == "selector." \o selector
Keys == {cache_key(sel) : sel \in Selectors}

None == [some |-> FALSE, list |-> <<>>]
Some(l) == [some |-> TRUE, list |-> l]

\* The three structs; only ResolvedFunction has decoded_inputs.
Resolved(kind, name, signature, inputs) ==
    IF kind = "function"
    THEN [name |-> name, signature |-> signature, inputs |-> inputs, decoded_inputs |-> "None"]
    ELSE [name |-> name, signature |-> signature, inputs |-> inputs]

\* match list.len() { 0 => None, _ => Some(list) }
AlwaysSome(list) == Some(list)
ToOption(list) == IF Len(list) = 0 THEN None ELSE Some(list)

\* One element of "items".
ItemWithText(v) == [hasText |-> TRUE, text |-> v]
ItemNoText == [hasText |-> FALSE, text |-> JsonNull]

\* The body of the `for signature in results` loop for one item: the
\* sequence it appends to signature_list (empty on `continue`).
ParseItem(kind, item) ==
    IF ~item.hasText THEN <<>>
    ELSE LET text_signature == ReplaceChar(json_to_string(item.text), Quote, <<>>)
             i == FirstIndex(text_signature, "(")
         IN  IF i = 0 THEN <<>>
             ELSE << Resolved(kind,
                              SubSeq(text_signature, 1, i - 1),
                              text_signature,
                              split(replace_last(SubSeq(text_signature, i + 1,
                                                        Len(text_signature)), ")"), ",")) >>

\* A resolve() that ordered its list best-first: each parsed entry is put
\* before the first entry that scores strictly lower.
InsertBestFirst(list, e) ==
    LET sc(x) == score_signature(x.signature, TRUE).val
        lower == {i \in 1..Len(list) : U32Less(sc(list[i]), sc(e))}
        at    == IF lower = {} THEN Len(list) + 1
                 ELSE CHOOSE i \in lower : \A j \in lower : i <= j
    IN  SubSeq(list, 1, at - 1) \o <<e>> \o SubSeq(list, at, Len(list))
RECURSIVE ParseItemsBestFirstFrom(_, _, _)
ParseItemsBestFirstFrom(kind, items, acc) ==
    IF items = <<>> THEN acc
    ELSE LET p == ParseItem(kind, Head(items))
         IN  ParseItemsBestFirstFrom(kind, Tail(items),
                                     IF p = <<>> THEN acc ELSE InsertBestFirst(acc, p[1]))
ParseItemsBestFirst(kind, items) == ParseItemsBestFirstFrom(kind, items, <<>>)

RECURSIVE ParseItems(_, _)
\* The whole loop: signature_list in the order of the items.
ParseItems(kind, items) ==
    IF items = <<>> THEN <<>>
    ELSE ParseItem(kind, Head(items)) \o ParseItems(kind, Tail(items))

\* What get_json_from_url(...).await hands back before the unwrap.
HttpErr == [status |-> "err", hasItems |-> FALSE, isArray |-> FALSE, items |-> <<>>]
HttpNoBody == [status |-> "none", hasItems |-> FALSE, isArray |-> FALSE, items |-> <<>>]
JsonNoItems == [status |-> "json", hasItems |-> FALSE, isArray |-> FALSE, items |-> <<>>]
JsonItemsNotArray == [status |-> "json", hasItems |-> TRUE, isArray |-> FALSE, items |-> <<>>]
JsonItems(items) == [status |-> "json", hasItems |-> TRUE, isArray |-> TRUE, items |-> items]
NoResponse == [status |-> "pending", hasItems |-> FALSE, isArray |-> FALSE, items |-> <<>>]

\* The items a backend answer is made of: one without "text", and two
\* signatures, the longer first.
ItemPool == { ItemNoText,
              ItemWithText(JsonString(Sig_a_b_c)),
              ItemWithText(JsonString(Sig_a_b)) }
IsInjective(a) == \A i, j \in 1..Len(a) : a[i] = a[j] => i = j
\* The arrays an answer may hold: the items of the pool, each at most once,
\* in any order; a text without "(" ; a text that is not a string.
ItemArrays == UNION {{a \in [1..n -> ItemPool] : IsInjective(a)} : n \in 0..Cardinality(ItemPool)}
              \cup { <<ItemWithText(JsonString(Sig_test_signature))>>,
                     <<ItemWithText(JsonNull)>> }
Responses == {HttpErr, HttpNoBody, JsonNoItems, JsonItemsNotArray}
             \cup {JsonItems(a) : a \in ItemArrays}

\* The cache (heimdall_cache): one entry per key, holding the list as the
\* storing kind serialised it.
NoEntry == [present |-> FALSE, kind |-> "none", list |-> <<>>]
Entry(kind, list) == [present |-> TRUE, kind |-> kind, list |-> list]

\* ResolvedError and ResolvedLog have the same fields; ResolvedFunction has
\* one more.
SameLayout(k1, k2) == k1 = k2 \/ {k1, k2} = {"error", "event"}

Retype(kind, list) ==
    [i \in 1..Len(list) |-> Resolved(kind, list[i].name, list[i].signature, list[i].inputs)]

\* read_cache::<Vec<kind>>(key): the possible results.  An entry written by
\* a kind of another layout deserialises or not, depending on the format.
read_cache(kind, key) ==
    LET e == cache[key]
    IN  IF ~e.present THEN {None}
        ELSE IF SameLayout(e.kind, kind) THEN {Some(Retype(kind, e.list))}
        ELSE {None, Some(Retype(kind, e.list))}

\* store_cache(key, list, None)
store_cache(key, kind, list) == [cache EXCEPT ![key] = Entry(kind, list)]

NumCalls == 2

RECURSIVE SumCalls(_, _)
SumCalls(f, S) ==
    IF S = {} THEN 0
    ELSE LET x == CHOOSE x \in S : TRUE IN f[x] + SumCalls(f, S \ {x})

\* The number of resolve() futures suspended at the GET request; calls
\* counts them per kind and selector.
InFlight == SumCalls(calls, Kinds \X Selectors)

\* ParseItems over every array a response of the model may hold, evaluated
\* once.
signature_list_of == [kind \in Kinds |-> [a \in ItemArrays |-> ParseItems(kind, a)]]

\* The call that finished last: its arguments, whether read_cache gave it a
\* list, what the backend gave it, and how it ended.
NoCompletion == [outcome |-> "none", kind |-> "none", selector |-> "none",
                 hit |-> FALSE, resp |-> NoResponse, result |-> None]
Completion(outcome, kind, selector, hit, resp, returned) ==
    [outcome |-> outcome, kind |-> kind, selector |-> selector,
     hit |-> hit, resp |-> resp, result |-> returned]

ResolveInit ==
    /\ cache = [k \in Keys |-> NoEntry]
    /\ calls = [x \in Kinds \X Selectors |-> 0]
    /\ last = NoCompletion

\* resolve(selector) up to its first suspension: the cache lookup, which
\* returns on a hit, and on a miss the GET request.
StartResolve(kind, selector) ==
    /\ InFlight < NumCalls
    /\ \E cached \in read_cache(kind, cache_key(selector)) :
          IF cached.some
          THEN /\ last' = Completion("returned", kind, selector, TRUE, NoResponse,
                                     ToOption(cached.list))
               /\ UNCHANGED calls
          ELSE /\ calls' = [calls EXCEPT ![<<kind, selector>>] = @ + 1]
               /\ UNCHANGED last
    /\ UNCHANGED cache
    /\ UNCHANGED <<scoreVars, cliVars>>

\* resolve(selector) from the answer of the backend to its return (or to
\* the panic of the unwrap).
HttpResponse(kind, selector, resp) ==
    /\ calls[<<kind, selector>>] > 0
    /\ calls' = [calls EXCEPT ![<<kind, selector>>] = @ - 1]
    /\ UNCHANGED <<scoreVars, cliVars>>
    /\ LET key  == cache_key(selector)
           signature_list == signature_list_of[kind][resp.items]
       IN  IF resp.status = "err"
           THEN /\ last' = Completion("panicked", kind, selector, FALSE, resp, None)
                /\ UNCHANGED cache
           ELSE IF resp.status = "none" \/ ~resp.hasItems \/ ~resp.isArray
           THEN /\ last' = Completion("returned", kind, selector, FALSE, resp, None)
                /\ UNCHANGED cache
           ELSE /\ cache' = store_cache(key, kind, signature_list)
                /\ last' = Completion("returned", kind, selector, FALSE, resp,
                                      ToOption(signature_list))

\* delete_cache(key), or the expiry of the entry.
delete_cache(selector) ==
    /\ cache[cache_key(selector)].present
    /\ cache' = [cache EXCEPT ![cache_key(selector)] = NoEntry]
    /\ UNCHANGED <<calls, last>>
    /\ UNCHANGED <<scoreVars, cliVars>>

ResolveNext ==
    \/ \E kind \in Kinds, selector \in Selectors : StartResolve(kind, selector)
    \/ \E kind \in Kinds, selector \in Selectors, resp \in Responses :
          HttpResponse(kind, selector, resp)
    \/ \E selector \in Selectors : delete_cache(selector)

----------------------------------------------------------------------------
(* main(): the command line, the environment and the texts it builds *)

Slash == <<"/">>
Newline == <<"\n">>
Comma == <<",">>

\* println!("{}", s) on the standard output `out`.
println(out, s) == out \o s \o Newline

RECURSIVE Join(_, _)
\* [String]::join(sep)
Join(texts, sep) ==
    IF texts = <<>> THEN <<>>
    ELSE IF Len(texts) = 1 THEN texts[1]
    ELSE texts[1] \o sep \o Join(Tail(texts), sep)

DigitChars == <<"0", "1", "2", "3", "4", "5", "6", "7", "8", "9">>
RECURSIVE to_string(_)
\* u64 Display: the decimal digits.
to_string(n) ==
    IF n < 10 THEN <<DigitChars[n + 1]>>
    ELSE to_string(n \div 10) \o <<DigitChars[(n % 10) + 1]>>

\* --output: "print" or a directory name.
OutputStdout == <<"p", "r", "i", "n", "t">>
OutputDir == <<"o", "u", "t">>
Outputs == {OutputStdout, OutputDir}

\* constants::ADDRESS_REGEX, ^0x[a-fA-F0-9]{40}$
HexDigits == AsciiDigits \cup {"a", "b", "c", "d", "e", "f", "A", "B", "C", "D", "E", "F"}
is_match(target) ==
    /\ Len(target) = 42
    /\ target[1] = "0"
    /\ target[2] = "x"
    /\ \A i \in 3..42 : target[i] \in HexDigits

Repeat(c, n) == [i \in 1..n |-> c]
TargetAddress == <<"0", "x">> \o Repeat("a", 38) \o <<"F", "9">>
TargetTooLong == <<"0", "x">> \o Repeat("a", 41)
TargetNotHex == <<"0", "x">> \o Repeat("a", 39) \o <<"g">>
TargetFile == <<"c", ".", "b", "i", "n">>
Targets == {TargetAddress, TargetTooLong, TargetNotHex, TargetFile}

\* The working directory env::current_dir() reports.
Cwd == <<"/", "w">>

\* What Arguments::parse() makes of the command line.
SubcommandNames == {"disassemble", "decompile", "cfg", "decode", "config",
                    "cache", "dump", "snapshot"}
Arguments(sub, output, target, include_solidity) ==
    [valid |-> TRUE, sub |-> sub, output |-> output, target |-> target,
     include_solidity |-> include_solidity]
UsageError ==
    [valid |-> FALSE, sub |-> "none", output |-> <<>>, target |-> <<>>,
     include_solidity |-> FALSE]
CommandLines ==
    {Arguments(sub, o, t, FALSE) : sub \in {"disassemble", "cfg", "dump"},
                                   o \in Outputs, t \in Targets}
    \cup {Arguments("decompile", o, t, b) : o \in Outputs, t \in Targets, b \in BOOLEAN}
    \cup {Arguments(sub, <<>>, t, FALSE) : sub \in {"decode", "snapshot"}, t \in Targets}
    \cup {Arguments(sub, <<>>, <<>>, FALSE) : sub \in {"config", "cache"}}
    \cup {UsageError}

\* Option<String>
NoText == [some |-> FALSE, text |-> <<>>]
SomeText(t) == [some |-> TRUE, text |-> t]

\* A row of the dump result; its fields are texts without ',' or line break.
DumpRow(last_modified, alias, slot, decoded_type, value) ==
    [last_modified |-> last_modified, alias |-> alias, slot |-> slot,
     decoded_type |-> decoded_type, value |-> value]
RowPool ==
    {DumpRow(<<"7">>, <<>>, <<"0", "x", "0">>, <<"b", "o", "o", "l">>, <<"1">>),
     DumpRow(<<"1", "2">>, <<"o", "w", "n">>, <<"0", "x", "1">>,
             <<"a", "d", "d", "r", "e", "s", "s">>, <<"0", "x", "a", "b">>)}
MaxRows == 2
DumpResults == UNION {[1..n -> RowPool] : n \in 0..MaxRows}

\* The value a subcommand returns: assembly or source text, ABI entries
\* (each the pretty JSON of one entry), dump rows.
SubResult(tag, text, abi, rows) ==
    [tag |-> tag, text |-> text, has_abi |-> abi.some, abi |-> abi.entries, rows |-> rows]
NoAbi == [some |-> FALSE, entries |-> <<>>]
SomeAbi(entries) == [some |-> TRUE, entries |-> entries]
NoResult == SubResult("none", NoText, NoAbi, <<>>)
AssemblyText == <<"0", " ", "P", "U", "S", "H", "0", "\n", "1", " ", "S", "T", "O", "P">>
SourceText == <<"o", "b", "j", "e", "c", "t", " ", "{", "}">>
AbiEntryText == <<"{", "\n", " ", " ", "\"", "t", "y", "p", "e", "\"", ":", " ", "1", "\n", "}">>
Abis == {NoAbi, SomeAbi(<<>>), SomeAbi(<<AbiEntryText>>), SomeAbi(<<AbiEntryText, AbiEntryText>>)}
DisassembleResults == {SubResult("assembly", SomeText(AssemblyText), NoAbi, <<>>)}
DecompileResults ==
    {SubResult("decompiled", source, abi, <<>>) : source \in {NoText, SomeText(SourceText)},
                                                   abi \in Abis}
CfgResults == {SubResult("cfg", SomeText(<<"d", "i", "g", "r", "a", "p", "h">>), NoAbi, <<>>)}
DumpOutcomeResults == {SubResult("dump", NoText, NoAbi, rows) : rows \in DumpResults}
SnapshotResults == {SubResult("snapshot", SomeText(<<"s", "e", "l">>), NoAbi, <<>>)}
UnitResults == {SubResult("unit", NoText, NoAbi, <<>>)}

\* Result<T, E> of a subcommand, of rpc::chain_id, of a file system call.
Ok(value) == [ok |-> TRUE, value |-> value, cause |-> "none"]
Err(cause) == [ok |-> FALSE, value |-> NoResult, cause |-> cause]
SubcommandErrors == {Err("network"), Err("analysis")}
Outcomes(results) == {Ok(r) : r \in results} \cup SubcommandErrors
ChainIds == {1, 137}
OkChain(id) == [ok |-> TRUE, id |-> id]
ErrChain == [ok |-> FALSE, id |-> 0]
ChainIdOutcomes == {OkChain(id) : id \in ChainIds} \cup {ErrChain}

\* The failure a run met: its cause and the call that reported it.
NoFault == [cause |-> "none", at |-> "none"]
Fault(cause, at) == [cause |-> cause, at |-> at]

\* The exit status of the process.
Running == [exited |-> FALSE, code |-> 0]
Exited(code) == [exited |-> TRUE, code |-> code]
ExitSuccess == 0
ExitFailure == 1
ExitUsage == 2
ExitPanic == 101
ExitAbort == 134
\* A panic runs the hook of lines 81-99: the process ends with the panic
\* status, or is aborted when one of the hook's own unwrap()s panics.
PanicExits == {ExitPanic, ExitAbort}

\* utils::io::file::write_file: creates the parent directory and the file.
FileAt(path, content) == [path |-> path, content |-> content]
write_file(fs, path, content) ==
    {f \in fs : f.path # path} \cup {FileAt(path, content)}
\* utils::io::file::write_lines_to_file: the lines joined by line breaks.
write_lines_to_file(fs, path, lines) == write_file(fs, path, Join(lines, Newline))
Parent(path) ==
    LET i == LastIndex(path, "/") IN IF i = 0 THEN <<>> ELSE SubSeq(path, 1, i - 1)

CliIdle ==
    /\ pc = "idle"
    /\ args = UsageError
    /\ output_path = <<>>
    /\ result = NoResult
    /\ dirs = {}
    /\ files = {}
    /\ stdout = <<>>
    /\ fault = NoFault
    /\ exit_code = Running

CliInit ==
    /\ pc = "start"
    /\ args \in CommandLines
    /\ output_path = <<>>
    /\ result = NoResult
    /\ dirs = {}
    /\ files = {}
    /\ stdout = <<>>
    /\ fault = NoFault
    /\ exit_code = Running

----------------------------------------------------------------------------
(* main(): one action per step of the run *)

\* The run goes on to the version check of lines 332-342.
Continue ==
    /\ pc' = "version"
    /\ UNCHANGED exit_code
\* main returns Err (the ? operator) or clap ends the process.
Exit(code, cause, at) ==
    /\ pc' = "exited"
    /\ exit_code' = Exited(code)
    /\ fault' = Fault(cause, at)
\* An unwrap() or expect() panics.
Panic(cause, at) ==
    /\ pc' = "exited"
    /\ fault' = Fault(cause, at)
    /\ \E code \in PanicExits : exit_code' = Exited(code)

\* A directory for an address target that leaves the chain id out.
chain_dir_without_chain(out, chain_id, target) == out \o Slash \o target
\* The directory of the artifacts of decompile and cfg (lines 153-169, 239-244).
chain_dir(out, chain_id, target) == out \o Slash \o to_string(chain_id) \o Slash \o target
local_dir(out) == out \o <<"/", "l", "o", "c", "a", "l">>

\* Line 79: Arguments::parse(); clap ends the process on a usage error.
ParseArguments ==
    /\ pc = "start"
    /\ IF args.valid
       THEN pc' = "parsed" /\ UNCHANGED <<fault, exit_code>>
       ELSE Exit(ExitUsage, "usage", "parse")
    /\ UNCHANGED <<args, output_path, result, dirs, files, stdout>>
    /\ UNCHANGED <<scoreVars, resolveVars>>

\* Line 104: env::current_dir()?.into_os_string().into_string().unwrap()
CurrentDirOutcomes == {"ok", "err", "not_unicode"}
CurrentDir(outcome) ==
    /\ pc = "parsed"
    /\ IF outcome = "ok"
       THEN /\ output_path' = Cwd
            /\ pc' = "match"
            /\ UNCHANGED <<fault, exit_code>>
       ELSE /\ IF outcome = "err"
               THEN Exit(ExitFailure, "io", "current_dir")
               ELSE Panic("not_unicode", "current_dir")
            /\ UNCHANGED output_path
    /\ UNCHANGED <<args, result, dirs, files, stdout>>
    /\ UNCHANGED <<scoreVars, resolveVars>>

\* A disassemble arm without the print branch of lines 118-119: it writes
\* the file whatever cmd.output is.
DisassembleAlwaysWrites(outcome, created) ==
    /\ pc = "match"
    /\ args.sub = "disassemble"
    /\ LET out == output_path \o Slash \o args.output
           assembly == outcome.value.text.text
           dir_path == IF is_match(args.target)
                       THEN out \o Slash \o args.target
                       ELSE local_dir(out)
           full_path == dir_path \o Slash \o
                        <<"d", "i", "s", "a", "s", "s", "e", "m", "b", "l", "e", "d",
                          ".", "a", "s", "m">>
       IN  /\ output_path' = out
           /\ IF ~outcome.ok
              THEN /\ Exit(ExitFailure, outcome.cause, "subcommand")
                   /\ UNCHANGED <<result, dirs, files, stdout>>
              ELSE /\ result' = outcome.value
                   /\ IF ~created
                      THEN /\ Panic("io", "create_dir_all")
                           /\ UNCHANGED <<dirs, files, stdout>>
                      ELSE /\ dirs' = dirs \cup {dir_path}
                           /\ files' = write_file(files, full_path, assembly)
                           /\ Continue
                           /\ UNCHANGED <<stdout, fault>>
    /\ UNCHANGED args
    /\ UNCHANGED <<scoreVars, resolveVars>>

\* Lines 107-131.
Disassemble(outcome, created) ==
    /\ pc = "match"
    /\ args.sub = "disassemble"
    /\ LET out == output_path \o Slash \o args.output
           assembly == outcome.value.text.text
           dir_path == IF is_match(args.target)
                       THEN out \o Slash \o args.target
                       ELSE local_dir(out)
           full_path == dir_path \o Slash \o
                        <<"d", "i", "s", "a", "s", "s", "e", "m", "b", "l", "e", "d",
                          ".", "a", "s", "m">>
       IN  /\ output_path' = out
           /\ IF ~outcome.ok
              THEN /\ Exit(ExitFailure, outcome.cause, "subcommand")
                   /\ UNCHANGED <<result, dirs, files, stdout>>
              ELSE /\ result' = outcome.value
                   /\ IF args.output = OutputStdout
                      THEN /\ stdout' = println(stdout, assembly)
                           /\ Continue
                           /\ UNCHANGED <<dirs, files, fault>>
                      ELSE IF ~created
                      THEN /\ Panic("io", "create_dir_all")
                           /\ UNCHANGED <<dirs, files, stdout>>
                      ELSE /\ dirs' = dirs \cup {dir_path}
                           /\ files' = write_file(files, full_path, assembly)
                           /\ Continue
                           /\ UNCHANGED <<stdout, fault>>
    /\ UNCHANGED args
    /\ UNCHANGED <<scoreVars, resolveVars>>

\* serde_json::to_string_pretty of the ABI vector (line 146).
to_string_pretty(entries) ==
    IF entries = <<>> THEN <<"[", "]">>
    ELSE <<"[", "\n", " ", " ">>
         \o Join([i \in 1..Len(entries) |-> ReplaceChar(entries[i], "\n", <<"\n", " ", " ">>)],
                 <<",", "\n", " ", " ">>)
         \o <<"\n", "]">>
\* Lines 178-196: the content of abi.json.
abi_json(entries) == <<"[">> \o Join(entries, <<",", "\n">>) \o <<"]">>

\* Lines 144-150: the print branch of decompile.
print_decompiled(out, res) ==
    LET with_abi == IF res.has_abi
                    THEN println(out, <<"A", "B", "I", ":", " ">> \o to_string_pretty(res.abi))
                    ELSE out
    IN  IF res.text.some
        THEN println(with_abi, <<"S", "o", "u", "r", "c", "e", ":", " ">> \o res.text.text)
        ELSE with_abi

\* A decompile that names the source file decompiled.yul whatever the flag.
source_path_always_yul(dir_path, include_solidity) ==
    dir_path \o Slash \o <<"d", "e", "c", "o", "m", "p", "i", "l", "e", "d", ".", "y", "u", "l">>
\* Lines 200-204: the file the source is written to.
source_path(dir_path, include_solidity) ==
    IF include_solidity
    THEN dir_path \o Slash \o <<"d", "e", "c", "o", "m", "p", "i", "l", "e", "d", ".", "s", "o", "l">>
    ELSE dir_path \o Slash \o <<"d", "e", "c", "o", "m", "p", "i", "l", "e", "d", ".", "y", "u", "l">>

\* Lines 173-206: the files of decompile.
write_decompiled(fs, dir_path, res, include_solidity) ==
    LET with_abi == IF res.has_abi
                    THEN write_file(fs, dir_path \o Slash \o <<"a", "b", "i", ".", "j", "s", "o", "n">>,
                                    abi_json(res.abi))
                    ELSE fs
    IN  IF res.text.some
        THEN write_file(with_abi, source_path(dir_path, include_solidity), res.text.text)
        ELSE with_abi

\* Lines 133-208.
Decompile(outcome, chain, created) ==
    /\ pc = "match"
    /\ args.sub = "decompile"
    /\ IF ~outcome.ok
       THEN /\ Exit(ExitFailure, outcome.cause, "subcommand")
            /\ UNCHANGED <<output_path, result, dirs, files, stdout>>
       ELSE LET out == output_path \o Slash \o args.output
                dir_path == IF is_match(args.target)
                            THEN chain_dir(out, chain.id, args.target)
                            ELSE local_dir(out)
            IN  /\ output_path' = out
                /\ result' = outcome.value
                /\ IF args.output = OutputStdout
                   THEN /\ stdout' = print_decompiled(stdout, outcome.value)
                        /\ Continue
                        /\ UNCHANGED <<dirs, files, fault>>
                   ELSE IF is_match(args.target) /\ ~chain.ok
                   THEN /\ Panic("network", "chain_id")
                        /\ UNCHANGED <<dirs, files, stdout>>
                   ELSE IF ~created
                   THEN /\ Panic("io", "create_dir_all")
                        /\ UNCHANGED <<dirs, files, stdout>>
                   ELSE /\ dirs' = dirs \cup {dir_path}
                        /\ files' = write_decompiled(files, dir_path, outcome.value,
                                                     args.include_solidity)
                        /\ Continue
                        /\ UNCHANGED <<stdout, fault>>
    /\ UNCHANGED args
    /\ UNCHANGED <<scoreVars, resolveVars>>

\* Lines 210-225: the Result of decode is dropped.
Decode(outcome) ==
    /\ pc = "match"
    /\ args.sub = "decode"
    /\ fault' = IF outcome.ok THEN fault ELSE Fault(outcome.cause, "subcommand")
    /\ Continue
    /\ UNCHANGED <<args, output_path, result, dirs, files, stdout>>
    /\ UNCHANGED <<scoreVars, resolveVars>>

\* cfg::output::write_cfg_to_file: the graph is written into dir_path.
write_cfg_to_file(fs, cfg, dir_path) ==
    write_file(fs, dir_path \o Slash \o <<"c", "f", "g", ".", "d", "o", "t">>, cfg)

\* Lines 227-248: no print branch.
CFG(outcome, chain, created) ==
    /\ pc = "match"
    /\ args.sub = "cfg"
    /\ IF ~outcome.ok
       THEN /\ Exit(ExitFailure, outcome.cause, "subcommand")
            /\ UNCHANGED <<output_path, result, dirs, files>>
       ELSE LET out == output_path \o Slash \o args.output
                dir_path == IF is_match(args.target)
                            THEN chain_dir(out, chain.id, args.target)
                            ELSE local_dir(out)
            IN  /\ output_path' = out
                /\ result' = outcome.value
                /\ IF is_match(args.target) /\ ~chain.ok
                   THEN /\ Panic("network", "chain_id")
                        /\ UNCHANGED <<dirs, files>>
                   ELSE IF ~created
                   THEN /\ Panic("io", "create_dir_all")
                        /\ UNCHANGED <<dirs, files>>
                   ELSE /\ dirs' = dirs \cup {dir_path}
                        /\ files' = write_cfg_to_file(files, outcome.value.text.text, dir_path)
                        /\ Continue
                        /\ UNCHANGED fault
    /\ UNCHANGED <<args, stdout>>
    /\ UNCHANGED <<scoreVars, resolveVars>>

\* Line 269: the header line of the dump.
dump_header ==
    <<"l", "a", "s", "t", "_", "m", "o", "d", "i", "f", "i", "e", "d", ",",
      "a", "l", "i", "a", "s", ",", "s", "l", "o", "t", ",", "d", "e", "c",
      "o", "d", "e", "d", "_", "t", "y", "p", "e", ",", "v", "a", "l", "u",
      "e">>

\* A row formatted with its first two columns exchanged.
format_row_alias_first(row) ==
    row.alias \o Comma \o row.last_modified \o Comma \o row.slot \o Comma
    \o row.decoded_type \o Comma \o row.value
\* Lines 273-276: format!("{},{},{},{},{}", ...)
format_row(row) ==
    row.last_modified \o Comma \o row.alias \o Comma \o row.slot \o Comma
    \o row.decoded_type \o Comma \o row.value

\* Lines 262-277: the header, then one line per row.
dump_lines(rows) == <<dump_header>> \o [i \in 1..Len(rows) |-> format_row(rows[i])]

RECURSIVE println_all(_, _)
\* Lines 280-282.
println_all(out, lines) ==
    IF lines = <<>> THEN out ELSE println_all(println(out, Head(lines)), Tail(lines))

\* Lines 250-296.
Dump(outcome, chain) ==
    /\ pc = "match"
    /\ args.sub = "dump"
    /\ IF ~outcome.ok
       THEN /\ Exit(ExitFailure, outcome.cause, "subcommand")
            /\ UNCHANGED <<output_path, result, dirs, files, stdout>>
       ELSE LET out == output_path \o Slash \o args.output
                lines == dump_lines(outcome.value.rows)
                csv_path == IF is_match(args.target)
                            THEN chain_dir(out, chain.id, args.target)
                                 \o <<"/", "d", "u", "m", "p", ".", "c", "s", "v">>
                            ELSE out \o <<"/", "l", "o", "c", "a", "l", "/", "d", "u", "m",
                                          "p", ".", "c", "s", "v">>
            IN  /\ result' = outcome.value
                /\ IF args.output = OutputStdout
                   THEN /\ output_path' = out
                        /\ stdout' = println_all(stdout, lines)
                        /\ Continue
                        /\ UNCHANGED <<dirs, files, fault>>
                   ELSE IF is_match(args.target) /\ ~chain.ok
                   THEN /\ output_path' = out
                        /\ Panic("network", "chain_id")
                        /\ UNCHANGED <<dirs, files, stdout>>
                   ELSE /\ output_path' = csv_path
                        /\ dirs' = dirs \cup {Parent(csv_path)}
                        /\ files' = write_lines_to_file(files, csv_path, lines)
                        /\ Continue
                        /\ UNCHANGED <<stdout, fault>>
    /\ UNCHANGED args
    /\ UNCHANGED <<scoreVars, resolveVars>>

\* snapshot::util::csv::generate_and_write_contract_csv: writes the file.
generate_and_write_contract_csv(fs, snapshot, path) == write_file(fs, path, snapshot)

\* Lines 298-322: the path is built, and the chain id fetched, before
\* snapshot() runs; cmd.output is not part of the path.
Snapshot(outcome, chain) ==
    /\ pc = "match"
    /\ args.sub = "snapshot"
    /\ LET csv_path == IF is_match(args.target)
                       THEN chain_dir(output_path, chain.id, args.target)
                            \o <<"/", "s", "n", "a", "p", "s", "h", "o", "t", ".", "c", "s", "v">>
                       ELSE output_path
                            \o <<"/", "l", "o", "c", "a", "l", "/", "s", "n", "a", "p", "s",
                                 "h", "o", "t", ".", "c", "s", "v">>
       IN  IF is_match(args.target) /\ ~chain.ok
           THEN /\ Panic("network", "chain_id")
                /\ UNCHANGED <<output_path, result, dirs, files>>
           ELSE /\ output_path' = csv_path
                /\ IF ~outcome.ok
                   THEN /\ Exit(ExitFailure, outcome.cause, "subcommand")
                        /\ UNCHANGED <<result, dirs, files>>
                   ELSE /\ result' = outcome.value
                        /\ dirs' = dirs \cup {Parent(csv_path)}
                        /\ files' = generate_and_write_contract_csv(
                                        files, outcome.value.text.text, csv_path)
                        /\ Continue
                        /\ UNCHANGED fault
    /\ UNCHANGED <<args, stdout>>
    /\ UNCHANGED <<scoreVars, resolveVars>>

\* Lines 323-325.
Config ==
    /\ pc = "match"
    /\ args.sub = "config"
    /\ Continue
    /\ UNCHANGED <<args, output_path, result, dirs, files, stdout, fault>>
    /\ UNCHANGED <<scoreVars, resolveVars>>

\* Lines 327-329: the Result of cache is dropped.
Cache(outcome) ==
    /\ pc = "match"
    /\ args.sub = "cache"
    /\ fault' = IF outcome.ok THEN fault ELSE Fault(outcome.cause, "subcommand")
    /\ Continue
    /\ UNCHANGED <<args, output_path, result, dirs, files, stdout>>
    /\ UNCHANGED <<scoreVars, resolveVars>>

\* utils::io::logging::Logger::info: one line on the standard output.
\* The backtick of the second message is written as its code point, U+0060.
logger_info(out, message) == println(out, <<"i", "n", "f", "o", ":", " ">> \o message)
RemoteVersion == <<"9", ".", "9", ".", "9">>
UpdateNotice(out) ==
    logger_info(
        logger_info(println(out, <<>>),
                    <<"g", "r", "e", "a", "t", " ", "n", "e", "w", "s", "!", " ", "A", "n",
                      " ", "u", "p", "d", "a", "t", "e", " ", "i", "s", " ", "a", "v", "a",
                      "i", "l", "a", "b", "l", "e", "!">>),
        <<"y", "o", "u", " ", "c", "a", "n", " ", "u", "p", "d", "a", "t", "e",
          " ", "n", "o", "w", " ", "b", "y", " ", "r", "u", "n", "n", "i", "n",
          "g", ":", " ", "U+0060", "b", "i", "f", "r", "o", "s", "t", " ", "-", "-",
          "v", "e", "r", "s", "i", "o", "n", " ">> \o RemoteVersion \o <<"U+0060">>)

\* Lines 332-344: the update notice, then Ok(()).
VersionCheck(newer) ==
    /\ pc = "version"
    /\ stdout' = IF newer THEN UpdateNotice(stdout) ELSE stdout
    /\ pc' = "exited"
    /\ exit_code' = Exited(ExitSuccess)
    /\ UNCHANGED <<args, output_path, result, dirs, files, fault>>
    /\ UNCHANGED <<scoreVars, resolveVars>>

CliNext ==
    \/ ParseArguments
    \/ \E outcome \in CurrentDirOutcomes : CurrentDir(outcome)
    \/ \E outcome \in Outcomes(DisassembleResults), created \in BOOLEAN :
           Disassemble(outcome, created)
    \/ \E outcome \in Outcomes(DecompileResults), chain \in ChainIdOutcomes,
          created \in BOOLEAN :
           Decompile(outcome, chain, created)
    \/ \E outcome \in Outcomes(UnitResults) : Decode(outcome)
    \/ \E outcome \in Outcomes(CfgResults), chain \in ChainIdOutcomes, created \in BOOLEAN :
           CFG(outcome, chain, created)
    \/ \E outcome \in Outcomes(DumpOutcomeResults), chain \in ChainIdOutcomes :
           Dump(outcome, chain)
    \/ \E outcome \in Outcomes(SnapshotResults), chain \in ChainIdOutcomes :
           Snapshot(outcome, chain)
    \/ Config
    \/ \E outcome \in Outcomes(UnitResults) : Cache(outcome)
    \/ \E newer \in BOOLEAN : VersionCheck(newer)

----------------------------------------------------------------------------
(* ScoreSpec: two calls of score_signature on bounded inputs *)

BaseSigs == {Sig_a_uint256, Sig_a1_uint256, Sig_a_uint256_uint256, Sig_test_signature}

\* A text followed by n copies of one character.
Pad(s, c, n) == s \o [i \in 1..n |-> c]

\* Padding lengths: none, one, and two around the length at which the
\* penalty of the padded "a(uint256)" reaches StartScore.
LongPad == 981
PadLens == {0, 1, LongPad, LongPad + 1}
PadChars == {"a", "7", "U+00E9"}

ScoreInputs == {Pad(s, c, n) : s \in BaseSigs, c \in PadChars, n \in PadLens}

NotCalled == [called |-> FALSE, panic |-> FALSE, val |-> U32Of(0)]
Returned(r) == [called |-> TRUE, panic |-> r.panic, val |-> r.val]

ScoreInit ==
    /\ sigs \in [1..2 -> ScoreInputs]
    /\ scores = [i \in 1..2 |-> NotCalled]
    /\ overflowChecks \in BOOLEAN
    /\ ResolveInit
    /\ CliIdle

CallScore(i) ==
    /\ ~scores[i].called
    /\ scores' = [scores EXCEPT ![i] = Returned(score_signature(sigs[i], overflowChecks))]
    /\ UNCHANGED <<sigs, overflowChecks>>
    /\ UNCHANGED <<resolveVars, cliVars>>

ScoreNext == \E i \in 1..2 : CallScore(i)

ScoreSpec == ScoreInit /\ [][ScoreNext]_vars

----------------------------------------------------------------------------
(* ResolveSpec: resolve() calls, overlapping at the HTTP request *)

ScoreIdle ==
    /\ sigs = [i \in 1..2 |-> <<>>]
    /\ scores = [i \in 1..2 |-> NotCalled]
    /\ overflowChecks = TRUE

ResolveSpecInit == ScoreIdle /\ ResolveInit /\ CliIdle

ResolveSpec ==
    /\ ResolveSpecInit
    /\ [][ResolveNext]_vars

----------------------------------------------------------------------------
(* CliSpec: one run of main() *)

CliSpecInit == ScoreIdle /\ ResolveInit /\ CliInit

CliSpec ==
    /\ CliSpecInit
    /\ [][CliNext]_vars

----------------------------------------------------------------------------
(* Claims about score_signature, checked under ScoreSpec *)

\* The score the formula 1000 - len - 3 * digits gives, as an integer; len
\* is the byte length (str::len) and digits the count of numeric characters.
FormulaScore(s) == StartScore - str_len(s) - 3 * count_numeric(s)

ReturnedNormally(i) == scores[i].called /\ ~scores[i].panic

\* C1: for every signature, score_signature(sig) equals 1000 minus the
\* length of sig minus 3 times the number of digit characters in sig.
C1_ScoreEqualsFormula ==
    \A i \in 1..2 :
        scores[i].called =>
            /\ ~scores[i].panic
            /\ scores[i].val = [hi |-> 0, lo |-> FormulaScore(sigs[i])]

\* C2: for two signatures with the same number of digit characters, the
\* shorter one scores strictly higher, at every length (also where
\* len + 3 * digits exceeds 1000).
C2_ScoreMonotoneInLength ==
    \A i, j \in 1..2 :
        ( /\ scores[i].called /\ scores[j].called
          /\ count_numeric(sigs[i]) = count_numeric(sigs[j])
          /\ str_len(sigs[i]) < str_len(sigs[j]) )
        => /\ ReturnedNormally(i) /\ ReturnedNormally(j)
           /\ U32Less(scores[j].val, scores[i].val)

IsAscii(s) == \A k \in 1..Len(s) : s[k] \notin TwoByteChars
NonDigits(s) == Cardinality({k \in 1..Len(s) : s[k] \notin AsciiDigits})
Digits(s) == Cardinality({k \in 1..Len(s) : s[k] \in AsciiDigits})
IsProperPrefix(s, t) == Len(s) < Len(t) /\ SubSeq(t, 1, Len(s)) = s

\* C9: at a fixed count of non-digit characters one more digit character
\* lowers the score by exactly 4; extra non-digit characters after a prefix
\* lower the score; in particular "a(uint256)" scores above
\* "a(uint256,uint256)" and above "a1(uint256)".
C9_ScoreTiesGeneralised ==
    \A i, j \in 1..2 :
        (scores[i].called /\ scores[j].called) =>
            /\ ( /\ IsAscii(sigs[i]) /\ IsAscii(sigs[j])
                 /\ NonDigits(sigs[i]) = NonDigits(sigs[j])
                 /\ Digits(sigs[j]) = Digits(sigs[i]) + 1 )
               => /\ ReturnedNormally(i) /\ ReturnedNormally(j)
                  /\ U32Less(scores[j].val, scores[i].val)
                  /\ U32WrappingSub(scores[i].val, scores[j].val) = U32Of(4)
            /\ ( /\ IsProperPrefix(sigs[i], sigs[j])
                 /\ Digits(sigs[j]) = Digits(sigs[i])
                 /\ count_numeric(sigs[j]) = count_numeric(sigs[i]) )
               => /\ ReturnedNormally(i) /\ ReturnedNormally(j)
                  /\ U32Less(scores[j].val, scores[i].val)
            /\ (sigs[i] = Sig_a_uint256 /\ sigs[j] \in {Sig_a_uint256_uint256, Sig_a1_uint256})
               => /\ ReturnedNormally(i) /\ ReturnedNormally(j)
                  /\ U32Less(scores[j].val, scores[i].val)

\* C14: score_signature never underflows: for every signature, also one
\* with len + 3 * digits above 1000, the call returns normally with a result
\* in 0..1000.
C14_ScoreNeverUnderflows ==
    \A i \in 1..2 :
        scores[i].called =>
            /\ ~scores[i].panic
            /\ scores[i].val.hi = 0
            /\ scores[i].val.lo <= StartScore

----------------------------------------------------------------------------
(* Claims about resolve(), checked under ResolveSpec *)

Returned_ == last.outcome = "returned"
StoredByLast == Returned_ /\ ~last.hit /\ last.resp.status = "json"
                /\ last.resp.hasItems /\ last.resp.isArray

SignaturesOf(list) == [i \in 1..Len(list) |-> list[i].signature]
ScoreOf(text) == score_signature(text, overflowChecks).val

\* The texts of the usable items of an answer (a string holding "("), in
\* the order the backend delivered them.
Usable(item) == /\ item.hasText /\ item.text.type = "string"
                /\ \E i \in 1..Len(item.text.s) : item.text.s[i] = "("
DeliveredSignatures(items) ==
    LET usable == SelectSeq(items, Usable)
    IN  [i \in 1..Len(usable) |-> usable[i].text.s]

\* Position of a text among the delivered items, 0 when it is not there.
DeliveredAt(items, text) ==
    IF \E i \in 1..Len(items) : items[i].hasText /\ items[i].text.s = text
    THEN CHOOSE i \in 1..Len(items) : items[i].hasText /\ items[i].text.s = text
    ELSE 0

\* C3 (as claimed): the list resolve() returns is ordered best-first by
\* score_signature, and entries of equal score keep the order in which the
\* backend delivered them.
C3_ResultBestFirst ==
    (Returned_ /\ last.result.some) =>
        LET l == last.result.list
        IN  /\ \A i \in 1..(Len(l) - 1) :
                  ~U32Less(ScoreOf(l[i].signature), ScoreOf(l[i + 1].signature))
            /\ StoredByLast =>
                  \A i, j \in 1..Len(l) :
                      (i < j /\ ScoreOf(l[i].signature) = ScoreOf(l[j].signature))
                      => DeliveredAt(last.resp.items, l[i].signature)
                           < DeliveredAt(last.resp.items, l[j].signature)

\* C3 (amended): the list resolve() returns from a backend answer holds the
\* usable items in the order the backend delivered them, whatever their
\* scores; it is None exactly when no item is usable.
C3_ResultInBackendOrder ==
    StoredByLast =>
        /\ SignaturesOf(last.result.list) = DeliveredSignatures(last.resp.items)
        /\ last.result.some <=> DeliveredSignatures(last.resp.items) # <<>>

\* C3 witness: a returned list whose first entry scores lower than its
\* second.
C3_Witness ==
    /\ StoredByLast /\ last.result.some /\ Len(last.result.list) = 2
    /\ U32Less(ScoreOf(last.result.list[1].signature),
               ScoreOf(last.result.list[2].signature))

\* C4: resolve() returns None whenever no candidate is available (no body,
\* no "items", "items" not an array, no usable item, an empty cached list)
\* and never returns Some of an empty list.
C4_NoneWhenNoCandidate ==
    Returned_ =>
        /\ last.result.some => last.result.list # <<>>
        /\ ~last.result.some => last.result = None
        /\ ( /\ ~last.hit
             /\ \/ last.resp.status = "none"
                \/ ~last.resp.hasItems
                \/ ~last.resp.isArray
                \/ DeliveredSignatures(last.resp.items) = <<>> )
           => last.result = None

\* C4 witness: a cache hit on a stored empty list has returned None.
C4_Witness ==
    /\ Returned_ /\ last.hit /\ last.result = None
    /\ cache[cache_key(last.selector)] = Entry(last.kind, <<>>)

\* C5: when the HTTP request returns an error, resolve() does not panic; it
\* completes and reports None.
C5_BackendErrorGivesNone ==
    last.resp.status = "err" => (Returned_ /\ last.result = None)

\* A step in which a resolve(kind, selector) starts: it either sends the GET
\* request or returns from the cache.
SendsRequest(kind, selector) ==
    calls'[<<kind, selector>>] = calls[<<kind, selector>>] + 1
ReturnsFromCache(kind, selector) ==
    /\ calls' = calls /\ cache' = cache /\ last' # last
    /\ last'.hit /\ last'.kind = kind /\ last'.selector = selector
Starts(kind, selector) == SendsRequest(kind, selector) \/ ReturnsFromCache(kind, selector)

\* What a resolve(kind, selector) that starts now returns from the cache.
FromCache(c, kind, selector) ==
    LET e == c[cache_key(selector)]
    IN  IF e.list = <<>> THEN None ELSE Some(e.list)

\* C10: once a resolve() of a kind and selector has stored its
\* list, every later resolve() of that kind and selector, the key still
\* holding an entry, sends no request and returns the stored list; repeated
\* resolution gives the same result every time, whatever the backend
\* answers later.  Step by step: a resolve() starting on such an entry
\* returns its list without a request, and while the key holds the entry no
\* step changes what that resolve() returns.
C10_SameResultEveryTime ==
    [][ \A kind \in Kinds, selector \in Selectors :
          LET key == cache_key(selector)
          IN  (cache[key].present /\ cache[key].kind = kind) =>
                /\ Starts(kind, selector) =>
                      /\ ~SendsRequest(kind, selector)
                      /\ last'.result = FromCache(cache, kind, selector)
                /\ cache'[key].present =>
                      FromCache(cache', kind, selector) = FromCache(cache, kind, selector)
      ]_vars

\* C12: kind isolation of the cache.  A list cached by resolving a selector
\* as one kind is never returned by a resolve() of that selector as another
\* kind, and what a resolve() of a kind returns depends only on that kind's
\* backend and that kind's earlier resolutions: a resolve() returns from the
\* cache only an entry its own kind stored, and a store of one kind never
\* replaces the entry of another.
C12_KindIsolation ==
    [][ \A kind \in Kinds, selector \in Selectors :
          LET key == cache_key(selector)
          IN  /\ ReturnsFromCache(kind, selector) => cache[key].kind = kind
              /\ (cache[key].present /\ cache'[key].present /\ cache'[key] # cache[key])
                 => cache'[key].kind = cache[key].kind
      ]_vars

----------------------------------------------------------------------------
(* Claims about main(), checked under CliSpec *)

\* The arm of subcommand `sub` ran to its end without meeting a failure.
Completed(sub) ==
    /\ args.valid
    /\ args.sub = sub
    /\ pc \in {"version", "exited"}
    /\ fault = NoFault

EndsWith(s, suffix) ==
    /\ Len(s) >= Len(suffix)
    /\ SubSeq(s, Len(s) - Len(suffix) + 1, Len(s)) = suffix

\* C6: the process ends with code 0 on success, 1 on invalid arguments, 3 on
\* an I/O failure and 4 on a network failure, and a run whose subcommand
\* failed never ends with code 0.
C6_ExitCodes ==
    exit_code.exited =>
        /\ fault.cause = "none" => exit_code.code = 0
        /\ fault.cause = "usage" => exit_code.code = 1
        /\ fault.cause = "io" => exit_code.code = 3
        /\ fault.cause = "network" => exit_code.code = 4
        /\ fault.at = "subcommand" => exit_code.code # 0

YulFiles == {f \in files : EndsWith(f.path, <<".", "y", "u", "l">>)}
SolidityFiles == {f \in files : EndsWith(f.path, <<".", "s", "o", "l">>)}

\* C7 as stated: a decompile with a source result, writing files, produces
\* a Yul artifact and, with include_solidity, a Solidity artifact in
\* addition; without the flag only the Yul artifact.
C7_SolidityInAdditionToYul ==
    Completed("decompile") /\ result.text.some /\ args.output # OutputStdout =>
        /\ YulFiles # {}
        /\ args.include_solidity <=> SolidityFiles # {}

\* C7 as amended: a decompile with a source result, writing files, writes
\* the one source text to exactly one source file, decompiled.sol with
\* include_solidity and decompiled.yul without it, never both; printing, it
\* writes no source file at all.
C7_OneSourceFile ==
    Completed("decompile") /\ result.text.some =>
        IF args.output = OutputStdout
        THEN YulFiles \cup SolidityFiles = {}
        ELSE \E f \in files :
                /\ YulFiles \cup SolidityFiles = {f}
                /\ f.content = result.text.text
                /\ IF args.include_solidity
                   THEN EndsWith(f.path, <<"/", "d", "e", "c", "o", "m", "p", "i", "l", "e",
                                           "d", ".", "s", "o", "l">>)
                   ELSE EndsWith(f.path, <<"/", "d", "e", "c", "o", "m", "p", "i", "l", "e",
                                           "d", ".", "y", "u", "l">>)

\* A decompile with include_solidity and a source result has written
\* decompiled.sol.
C7_Witness ==
    /\ Completed("decompile")
    /\ result.text.some
    /\ args.include_solidity
    /\ args.output # OutputStdout
    /\ SolidityFiles # {}

ColumnNames ==
    << <<"l", "a", "s", "t", "_", "m", "o", "d", "i", "f", "i", "e", "d">>,
       <<"a", "l", "i", "a", "s">>,
       <<"s", "l", "o", "t">>,
       <<"d", "e", "c", "o", "d", "e", "d", "_", "t", "y", "p", "e">>,
       <<"v", "a", "l", "u", "e">> >>
RowFields(row) == <<row.last_modified, row.alias, row.slot, row.decoded_type, row.value>>

\* `lines` is the header line followed by one line per row, in row order,
\* each line holding the row's five fields in column order.
IsDumpOf(lines, rows) ==
    /\ Len(lines) = Len(rows) + 1
    /\ split(lines[1], ",") = ColumnNames
    /\ \A i \in 1..Len(rows) : split(lines[i + 1], ",") = RowFields(rows[i])

\* The lines of a text in which every line ends with a line break.
StdoutLines(text) ==
    LET pieces == split(text, "\n") IN SubSeq(pieces, 1, Len(pieces) - 1)

\* C8: the output of dump is the header line last_modified, alias, slot,
\* decoded_type, value, then exactly one line per row of the result, in
\* result order and column order; on the standard output when printing
\* (where only the update notice of the version check may follow it), and
\* in dump.csv otherwise.
C8_DumpOutput ==
    Completed("dump") =>
        LET rows == result.rows
            n == Len(rows) + 1
        IN  IF args.output = OutputStdout
            THEN LET printed == StdoutLines(stdout)
                 IN  /\ files = {}
                     /\ Len(printed) >= n
                     /\ IsDumpOf(SubSeq(printed, 1, n), rows)
                     /\ pc = "version" => Len(printed) = n
                     /\ Len(printed) > n => printed[n + 1] = <<>>
            ELSE /\ pc = "version" => stdout = <<>>
                 /\ \E f \in files :
                        /\ files = {f}
                        /\ f.path = output_path
                        /\ EndsWith(f.path, <<"/", "d", "u", "m", "p", ".", "c", "s", "v">>)
                        /\ IsDumpOf(split(f.content, "\n"), rows)

\* A dump of two different rows has been printed and the run has ended.
C8_Witness ==
    /\ Completed("dump")
    /\ args.output = OutputStdout
    /\ pc = "exited"
    /\ Len(result.rows) >= 2
    /\ result.rows[1] # result.rows[2]

IsPrefixOf(s, t) == Len(s) <= Len(t) /\ SubSeq(t, 1, Len(s)) = s

\* C13 as stated: a subcommand run with output "print" creates no directory
\* and writes no file, for each of disassemble, decompile, cfg and dump.
C13_PrintWritesNothing ==
    ( /\ args.valid
      /\ args.sub \in {"disassemble", "decompile", "cfg", "dump"}
      /\ args.output = OutputStdout )
    => dirs = {} /\ files = {}

\* C13 as amended: disassemble, decompile and dump run with output "print"
\* create no directory and write no file, and a completed disassemble has
\* its assembly, a completed decompile its ABI and source, on the standard
\* output; cfg has no print mode: run with output "print" to its end it
\* prints nothing and writes its graph into a directory under
\* <cwd>/print.
C13_PrintExceptCfg ==
    (args.valid /\ args.output = OutputStdout) =>
        /\ args.sub \in {"disassemble", "decompile", "dump"} =>
              /\ dirs = {}
              /\ files = {}
              /\ Completed("disassemble") => IsPrefixOf(println(<<>>, result.text.text), stdout)
              /\ (Completed("decompile") /\ (result.has_abi \/ result.text.some)) =>
                    stdout # <<>>
        /\ Completed("cfg") =>
              /\ pc = "version" => stdout = <<>>
              /\ dirs # {}
              /\ files # {}
              /\ \A f \in files : IsPrefixOf(Cwd \o Slash \o OutputStdout \o Slash, f.path)
              /\ \A d \in dirs : IsPrefixOf(Cwd \o Slash \o OutputStdout \o Slash, d)

\* A disassemble run with output "print" has printed its assembly and
\* ended without creating a directory or a file.
C13_Witness ==
    /\ Completed("disassemble")
    /\ args.output = OutputStdout
    /\ pc = "exited"
    /\ stdout # <<>>
    /\ dirs = {}
    /\ files = {}

FileWriting == {"disassemble", "decompile", "cfg", "dump", "snapshot"}

\* The directory the arms build their paths from: <cwd>/<output>; the
\* snapshot arm does not use cmd.output and builds them from <cwd>.
OutputRoot == IF args.sub = "snapshot" THEN Cwd ELSE Cwd \o Slash \o args.output

\* The directories this run created or wrote a file into.
WrittenInto == dirs \cup {Parent(f.path) : f \in files}

\* C11 as stated: for each of disassemble, decompile, cfg, dump and snapshot
\* the match of the target against the address regex alone decides where
\* the output goes, in one layout: <output>/<chain_id>/<target>/ for a
\* matching target, <output>/local/ for any other.
C11_UniformLayout ==
    (args.valid /\ args.sub \in FileWriting) =>
        \A d \in WrittenInto :
            IF is_match(args.target)
            THEN \E id \in ChainIds : d = OutputRoot \o Slash \o to_string(id) \o Slash \o args.target
            ELSE d = OutputRoot \o <<"/", "l", "o", "c", "a", "l">>

\* C11 as amended: decompile, cfg, dump and snapshot write under
\* <root>/<chain_id>/<target>/ for a target matching the address regex and
\* under <root>/local/ for any other; disassemble writes under
\* <root>/<target>/, without the chain id, for a matching target and under
\* <root>/local/ for any other; <root> is <cwd>/<output>, and <cwd> for
\* snapshot.
C11_LayoutPerSubcommand ==
    (args.valid /\ args.sub \in FileWriting) =>
        \A d \in WrittenInto :
            IF ~is_match(args.target)
            THEN d = OutputRoot \o <<"/", "l", "o", "c", "a", "l">>
            ELSE IF args.sub = "disassemble"
            THEN d = OutputRoot \o Slash \o args.target
            ELSE \E id \in ChainIds : d = OutputRoot \o Slash \o to_string(id) \o Slash \o args.target

\* A disassemble of an address target has written its file, and a chain id
\* is no part of the path.
C11_Witness ==
    /\ Completed("disassemble")
    /\ is_match(args.target)
    /\ \E f \in files : Parent(f.path) = OutputRoot \o Slash \o args.target

====
